---- MODULE Spec2Model ----
(***************************************************************************)
(* Crypto Runner: the canvas component (simulator, frame loop) and the     *)
(* host App (phase, score, high score, wallet gate).                       *)
(*                                                                         *)
(* Numbers.  The source computes in IEEE doubles; here every quantity is a *)
(* fixed-point integer:                                                    *)
(*   lengths (x, y, width, height)   1/1000 px                             *)
(*   dt                              frame-equivalents of 16.66 ms         *)
(*   obstacle speed                  1/1000 px per frame-equivalent        *)
(*   currentFallSpeedRef             1/1000000 px per frame-equivalent     *)
(*   currentDifficultyRef            1/1000000                             *)
(*   spawnTimerRef                   1/100 ms                              *)
(*   scoreRef                        1/10000 point                         *)
(*   particle life                   1/50  (0.02, the decay of one         *)
(*                                   frame-equivalent)                     *)
(*   Math.random()                   1/1000                                *)
(* The App's score, highScore and the callback arguments are integers.     *)
(***************************************************************************)
EXTENDS Integers, Sequences, FiniteSets, TLC

VARIABLES
    canvasW,              \* canvas.width  (px)
    canvasH,              \* canvas.height (px)
    playerRef,            \* [x, targetX, y, width, height]
    obstaclesRef,         \* sequence of [x, y, width, height, speed, born]
    particlesRef,         \* sequence of [life]
    scoreRef,
    spawnTimerRef,
    currentDifficultyRef,
    currentFallSpeedRef,
    lastTimeRef,          \* 0: never set; 1: the timestamp of the last frame;
                          \* 2: performance.now() of the loop effect
    requestRef,           \* id of the last requestAnimationFrame
    rafPending,           \* ids of the frame callbacks the browser holds
    gameState,            \* App state as of the last render
    score,
    highScore,
    pend,                 \* state updates issued and not yet rendered
    storage,              \* localStorage['crypto-runner-highscore'], -1: absent
    isConnected,
    calls,                \* the last handler and the calls it made, in order
    nFrames,              \* frame callbacks run so far
    nMoves,               \* steering intents handled so far
    sinceSpawn,           \* dt (1/100 ms) simulated since the last spawn, -1: none since init
    runN,                 \* obstacles dodged since the run began
    runT,                 \* dt (frame-equivalents) simulated since the run began
    runClean              \* no collision since the run began

vars == <<canvasW, canvasH, playerRef, obstaclesRef, particlesRef, scoreRef,
          spawnTimerRef, currentDifficultyRef, currentFallSpeedRef, lastTimeRef,
          requestRef, rafPending, gameState, score, highScore, pend, storage,
          isConnected, calls, nFrames, nMoves, sinceSpawn, runN, runT,
          runClean>>

simVars == <<playerRef, obstaclesRef, particlesRef, scoreRef, spawnTimerRef,
             currentDifficultyRef, currentFallSpeedRef>>
loopVars == <<lastTimeRef, requestRef, rafPending>>
appVars == <<gameState, score, highScore, isConnected>>
runVars == <<sinceSpawn, runN, runT, runClean>>

----------------------------------------------------------------------------
(* Bounds of the model *)

MaxFrames == 3
MaxMoves == 1
MaxObstacles == 3

(* window.innerWidth / innerHeight the window can take *)
Widths == {67, 68, 800}
Heights == {400}

(* dt of a frame, in frame-equivalents: the same timestamp again, 416 ms, *)
(* a 1016 ms stall, 100 s in the background                              *)
DtSet == {0, 25, 61, 6000}

(* Math.random() in thousandths: for x and the speed jitter, for the width *)
Rand == {0, 500}
RandWidth == {500}

(* dt of the frames of a stalled page, and how many of them *)
StallDts == {61}
MaxStallFrames == 4

(* high scores found in storage at load: none, or one saved earlier *)
SavedSet == {-1, 20}

----------------------------------------------------------------------------
(* Program constants *)

INITIAL_FALL_SPEED == 4
ExplosionCount == 25
MinSpawnInterval == 350

Max(a, b) == IF a >= b THEN a ELSE b
Min(a, b) == IF a <= b THEN a ELSE b
Abs(a) == IF a < 0 THEN 0 - a ELSE a

(* Math.floor of a scoreRef value *)
Floor(s) == s \div 10000

NoUpdate == [score |-> -1, high |-> -1, state |-> "NONE"]

----------------------------------------------------------------------------
(* initGame: the player record *)
InitPlayer(w, h) ==
    [x |-> 500 * w - 24000, targetX |-> 500 * w - 24000,
     y |-> 1000 * h - 240000, width |-> 48000, height |-> 48000]

(* handleMove without the clamp to the play width *)
MoveTarget_NoClamp(p, w, dir) ==
    IF dir = "left" THEN p.targetX - 250 * w ELSE p.targetX + 250 * w

(* handleMove with three lanes in place of four *)
MoveTarget_ThirdLane(p, w, dir) ==
    LET laneWidth == (1000 * w) \div 3
    IN  IF dir = "left"
        THEN Max(10000, p.targetX - laneWidth)
        ELSE Min(1000 * w - p.width - 10000, p.targetX + laneWidth)

(* handleMove: the new targetX *)
MoveTarget(p, w, dir) ==
    LET laneWidth == 250 * w
    IN  IF dir = "left"
        THEN Max(10000, p.targetX - laneWidth)
        ELSE Min(1000 * w - p.width - 10000, p.targetX + laneWidth)

(* 1000 * 0.001^(dt/1000) for dt = k * 16.66 ms *)
RECURSIVE Retain(_)
Retain(k) ==
    IF k = 0 THEN 1000
    ELSE IF k > 60 THEN 0
    ELSE (Retain(k - 1) * 891) \div 1000

(* update: p.x += dx * (1 - Math.pow(0.001, dt / 1000)) *)
EaseX(x, targetX, k) ==
    LET dx == targetX - x
        f == 1000 - Retain(k)
        step == (Abs(dx) * f) \div 1000
    IN  IF dx >= 0 THEN x + step ELSE x - step

(* update: currentFallSpeedRef += SPEED_INCREMENT * dt *)
FallSpeedAfter(fs, k) == fs + 2499 * k

(* update: currentDifficultyRef += (SPEED_INCREMENT / 8) * dt *)
DifficultyAfter(d, k) == d + (312375 * k) \div 1000

(* the spawn interval without its floor of 350 ms *)
SpawnInterval_NoFloor(d) ==
    (1000000000 \div d) * 100 + ((1000000000 % d) * 100) \div d

(* update: Math.max(350, 1000 / currentDifficultyRef), in 1/100 ms *)
SpawnInterval(d) ==
    LET q == (1000000000 \div d) * 100 + ((1000000000 % d) * 100) \div d
    IN  Max(MinSpawnInterval * 100, q)

(* update: the obstacle pushed on a spawn *)
(* born is not a field of the source: it names the obstacle by the frame *)
(* that spawned it                                                        *)
NewObstacle(w, fs, rw, rx, rs, born) ==
    LET width == 50000 + 80 * rw
    IN  [x |-> (rx * (1000 * w - width)) \div 1000,
         y |-> -100000,
         width |-> width,
         height |-> 45000,
         speed |-> fs \div 1000 + (rs * 2500) \div 1000,
         born |-> born]

(* update: the rectangle overlap test *)
Collides(p, obs) ==
    /\ p.x < obs.x + obs.width
    /\ p.x + p.width > obs.x
    /\ p.y < obs.y + obs.height
    /\ p.y + p.height > obs.y

(* createExplosion: count particles of life 1.0 *)
Explosion == [i \in 1..ExplosionCount |-> [life |-> 50]]

(* the particle filter keeping a particle whose life has reached 0 *)
RECURSIVE AdvanceParticles_KeepZero(_, _)
AdvanceParticles_KeepZero(ps, k) ==
    IF ps = <<>> THEN <<>>
    ELSE LET life == Head(ps).life - k
             rest == AdvanceParticles_KeepZero(Tail(ps), k)
         IN  IF life >= 0 THEN <<[life |-> life]>> \o rest ELSE rest

(* update: the particle filter *)
RECURSIVE AdvanceParticles(_, _)
AdvanceParticles(ps, k) ==
    IF ps = <<>> THEN <<>>
    ELSE LET life == Head(ps).life - k
             rest == AdvanceParticles(Tail(ps), k)
         IN  IF life > 0 THEN <<[life |-> life]>> \o rest ELSE rest

(* the obstacle that passed the bottom scored but kept in the list *)
ObstacleStep_KeepScored(obs, p, h, k, acc) ==
    LET moved == [obs EXCEPT !.y = obs.y + obs.speed * k]
    IN  IF Collides(p, moved)
        THEN [acc EXCEPT
                !.particles = acc.particles \o Explosion,
                !.calls = acc.calls \o <<[op |-> "createExplosion", arg |-> ExplosionCount,
                                          born |-> obs.born],
                                         [op |-> "onGameOver", arg |-> Floor(acc.score),
                                          born |-> obs.born]>>]
        ELSE IF moved.y > 1000 * h
        THEN [acc EXCEPT
                !.score = acc.score + 100000,
                !.kept = acc.kept \o <<moved>>,
                !.calls = acc.calls \o <<[op |-> "onScoreUpdate",
                                          arg |-> Floor(acc.score + 100000),
                                          born |-> obs.born]>>]
        ELSE [acc EXCEPT !.kept = acc.kept \o <<moved>>]

(* a collision that also scores the obstacle *)
ObstacleStep_CollisionScores(obs, p, h, k, acc) ==
    LET moved == [obs EXCEPT !.y = obs.y + obs.speed * k]
    IN  IF Collides(p, moved)
        THEN [acc EXCEPT
                !.particles = acc.particles \o Explosion,
                !.score = acc.score + 100000,
                !.calls = acc.calls \o <<[op |-> "createExplosion", arg |-> ExplosionCount,
                                          born |-> obs.born],
                                         [op |-> "onGameOver", arg |-> Floor(acc.score),
                                          born |-> obs.born],
                                         [op |-> "onScoreUpdate",
                                          arg |-> Floor(acc.score + 100000),
                                          born |-> obs.born]>>]
        ELSE IF moved.y > 1000 * h
        THEN [acc EXCEPT
                !.score = acc.score + 100000,
                !.calls = acc.calls \o <<[op |-> "onScoreUpdate",
                                          arg |-> Floor(acc.score + 100000),
                                          born |-> obs.born]>>]
        ELSE [acc EXCEPT !.kept = acc.kept \o <<moved>>]

(* update: one obstacle of the filter callback; acc threads what the callback mutates; *)
(* born on a call is not an argument of the source: it names the obstacle of the call  *)
ObstacleStep(obs, p, h, k, acc) ==
    LET moved == [obs EXCEPT !.y = obs.y + obs.speed * k]
    IN  IF Collides(p, moved)
        THEN [acc EXCEPT
                !.particles = acc.particles \o Explosion,
                !.calls = acc.calls \o <<[op |-> "createExplosion", arg |-> ExplosionCount,
                                          born |-> obs.born],
                                         [op |-> "onGameOver", arg |-> Floor(acc.score),
                                          born |-> obs.born]>>]
        ELSE IF moved.y > 1000 * h
        THEN [acc EXCEPT
                !.score = acc.score + 100000,
                !.calls = acc.calls \o <<[op |-> "onScoreUpdate",
                                          arg |-> Floor(acc.score + 100000),
                                          born |-> obs.born]>>]
        ELSE [acc EXCEPT !.kept = acc.kept \o <<moved>>]

(* update: obstaclesRef.current.filter(...) *)
RECURSIVE FilterObstacles(_, _, _, _, _)
FilterObstacles(obs, p, h, k, acc) ==
    IF obs = <<>> THEN acc
    ELSE FilterObstacles(Tail(obs), p, h, k, ObstacleStep(Head(obs), p, h, k, acc))

(* the accrual skipped on a frame that scored *)
Accrue_Replace(s, k) == IF s > scoreRef THEN s ELSE s + 2499 * k

(* update: scoreRef.current += 0.015 * dt *)
Accrue(s, k) == s + 2499 * k

----------------------------------------------------------------------------
(* update returning early on the start screen only *)
Update_StartOnly(k, rw, rx, rs) ==
    LET parts == AdvanceParticles(particlesRef, k)
        still == [player |-> playerRef, obstacles |-> obstaclesRef, particles |-> parts,
                  score |-> scoreRef, spawnTimer |-> spawnTimerRef,
                  difficulty |-> currentDifficultyRef, fallSpeed |-> currentFallSpeedRef,
                  calls |-> <<>>, spawned |-> FALSE]
        p == [playerRef EXCEPT !.x = EaseX(playerRef.x, playerRef.targetX, k)]
        fs == FallSpeedAfter(currentFallSpeedRef, k)
        d == DifficultyAfter(currentDifficultyRef, k)
        timer == spawnTimerRef - 1666 * k
        spawn == timer <= 0
        obs == IF spawn
               THEN obstaclesRef \o <<NewObstacle(canvasW, fs, rw, rx, rs, nFrames + 1)>>
               ELSE obstaclesRef
        acc == FilterObstacles(obs, p, canvasH, k,
                   [kept |-> <<>>, score |-> scoreRef, particles |-> parts, calls |-> <<>>])
    IN  IF gameState = "START" THEN still
        ELSE [player |-> p, obstacles |-> acc.kept, particles |-> acc.particles,
              score |-> Accrue(acc.score, k),
              spawnTimer |-> IF spawn THEN SpawnInterval(d) ELSE timer,
              difficulty |-> d, fallSpeed |-> fs,
              calls |-> (IF spawn THEN <<[op |-> "spawn", arg |-> SpawnInterval(d)]>>
                         ELSE <<>>) \o acc.calls,
              spawned |-> spawn]

(* update(dt): the refs after the call and the calls made, in order *)
Update(k, rw, rx, rs) ==
    LET parts == AdvanceParticles(particlesRef, k)
        still == [player |-> playerRef, obstacles |-> obstaclesRef, particles |-> parts,
                  score |-> scoreRef, spawnTimer |-> spawnTimerRef,
                  difficulty |-> currentDifficultyRef, fallSpeed |-> currentFallSpeedRef,
                  calls |-> <<>>, spawned |-> FALSE]
        p == [playerRef EXCEPT !.x = EaseX(playerRef.x, playerRef.targetX, k)]
        fs == FallSpeedAfter(currentFallSpeedRef, k)
        d == DifficultyAfter(currentDifficultyRef, k)
        timer == spawnTimerRef - 1666 * k
        spawn == timer <= 0
        obs == IF spawn
               THEN obstaclesRef \o <<NewObstacle(canvasW, fs, rw, rx, rs, nFrames + 1)>>
               ELSE obstaclesRef
        acc == FilterObstacles(obs, p, canvasH, k,
                   [kept |-> <<>>, score |-> scoreRef, particles |-> parts, calls |-> <<>>])
    IN  IF gameState # "PLAYING" THEN still
        ELSE [player |-> p, obstacles |-> acc.kept, particles |-> acc.particles,
              score |-> Accrue(acc.score, k),
              spawnTimer |-> IF spawn THEN SpawnInterval(d) ELSE timer,
              difficulty |-> d, fallSpeed |-> fs,
              calls |-> (IF spawn THEN <<[op |-> "spawn", arg |-> SpawnInterval(d)]>>
                         ELSE <<>>) \o acc.calls,
              spawned |-> spawn]

(* App: onScoreUpdate = setScore, onGameOver = handleGameOver, as closed over *)
(* by the last render; pu is [pend, storage]                                *)
HandleCall(c, pu) ==
    IF c.op = "onScoreUpdate"
    THEN [pu EXCEPT !.pend.score = c.arg]
    ELSE IF c.op = "onGameOver"
    THEN IF c.arg > highScore
         THEN [pend |-> [score |-> c.arg, high |-> c.arg, state |-> "GAMEOVER"],
               storage |-> c.arg]
         ELSE [pu EXCEPT !.pend.score = c.arg, !.pend.state = "GAMEOVER"]
    ELSE pu

RECURSIVE HandleCalls(_, _)
HandleCalls(cs, pu) ==
    IF cs = <<>> THEN pu ELSE HandleCalls(Tail(cs), HandleCall(Head(cs), pu))

CountOp(cs, name) == Cardinality({i \in 1..Len(cs) : cs[i].op = name})

(* requestAnimationFrame: a new id; ids of finished requests are reused *)
RequestId(held, ref) ==
    CHOOSE i \in 1..(Cardinality(held) + 2) :
        /\ i \notin held \cup {ref}
        /\ \A j \in 1..(i - 1) : j \in held \cup {ref}

(* the loop effect without its cleanup *)
CancelFrame_None(held, ref) == held

(* frame loop effect, cleanup: if (requestRef.current) cancelAnimationFrame(requestRef.current) *)
CancelFrame(held, ref) == IF ref # 0 THEN held \ {ref} ELSE held

(* a render of App and the canvas with the updates p applied, then its effects *)
Render(p, conn) ==
    LET gs == IF p.state # "NONE" THEN p.state ELSE gameState
        held == CancelFrame(rafPending, requestRef)
        id == RequestId(held, requestRef)
    IN  /\ gameState' = gs
        /\ score' = IF p.score # -1 THEN p.score ELSE score
        /\ highScore' = IF p.high # -1 THEN p.high ELSE highScore
        /\ pend' = NoUpdate
        /\ isConnected' = conn
        /\ lastTimeRef' = IF gs = "PLAYING" THEN 2 ELSE lastTimeRef
        /\ requestRef' = id
        /\ rafPending' = held \cup {id}

----------------------------------------------------------------------------
(* The state after mount: resize() has run initGame, the high score is      *)
(* loaded, the loop effect has requested the first frame.                   *)
Init ==
    /\ canvasW \in Widths
    /\ canvasH \in Heights
    /\ playerRef = InitPlayer(canvasW, canvasH)
    /\ obstaclesRef = <<>>
    /\ particlesRef = <<>>
    /\ scoreRef = 0
    /\ spawnTimerRef = 0
    /\ currentDifficultyRef = 1000000
    /\ currentFallSpeedRef = INITIAL_FALL_SPEED * 1000000
    /\ lastTimeRef = 0
    /\ requestRef = 1
    /\ rafPending = {1}
    /\ gameState = "START"
    /\ score = 0
    /\ storage \in SavedSet
    /\ highScore = IF storage # -1 THEN storage ELSE 0
    /\ pend = NoUpdate
    /\ isConnected = FALSE
    /\ calls = <<>>
    /\ nFrames = 0
    /\ nMoves = 0
    /\ sinceSpawn = -1
    /\ runN = 0
    /\ runT = 0
    /\ runClean = TRUE

(* update: the spawn test after spawnTimerRef.current -= dt *)
SpawnDue(k) == gameState = "PLAYING" /\ spawnTimerRef - 1666 * k <= 0

(* animate(time): the browser runs the frame callback id; k is the dt it *)
(* computes, rw, rx, rs are the three Math.random() of a spawn           *)
Animate(id, k, rw, rx, rs) ==
    \E u \in {Update(k, rw, rx, rs)} :
    \E pu \in {HandleCalls(u.calls, [pend |-> pend, storage |-> storage])} :
    LET left == rafPending \ {id}
        next == RequestId(left, requestRef)
        playing == gameState = "PLAYING"
    IN  /\ Len(u.obstacles) <= MaxObstacles
        /\ playerRef' = u.player
        /\ obstaclesRef' = u.obstacles
        /\ particlesRef' = u.particles
        /\ scoreRef' = u.score
        /\ spawnTimerRef' = u.spawnTimer
        /\ currentDifficultyRef' = u.difficulty
        /\ currentFallSpeedRef' = u.fallSpeed
        /\ lastTimeRef' = 1
        /\ requestRef' = next
        /\ rafPending' = left \cup {next}
        /\ pend' = pu.pend
        /\ storage' = pu.storage
        /\ calls' = <<[op |-> "animate", arg |-> k]>> \o u.calls
        /\ nFrames' = nFrames + 1
        /\ sinceSpawn' = IF ~playing THEN sinceSpawn
                         ELSE IF u.spawned THEN 0
                         ELSE IF sinceSpawn = -1 THEN -1
                         ELSE sinceSpawn + 1666 * k
        /\ runN' = IF playing THEN runN + CountOp(u.calls, "onScoreUpdate") ELSE runN
        /\ runT' = IF playing THEN runT + k ELSE runT
        /\ runClean' = (runClean /\ CountOp(u.calls, "onGameOver") = 0)
        /\ UNCHANGED <<canvasW, canvasH, appVars, nMoves>>

(* dt = time - (lastTimeRef.current || time): 0 while lastTimeRef is      *)
(* unset; positive after a frame, whose timestamp is earlier; 0 or more   *)
(* after the loop effect, whose performance.now() the next frame's        *)
(* timestamp may equal                                                    *)
FrameDts(dts) ==
    IF lastTimeRef = 0 THEN {0}
    ELSE IF lastTimeRef = 1 THEN dts \ {0}
    ELSE dts

FrameWith(dts, maxFrames) ==
    /\ nFrames < maxFrames
    /\ \E id \in rafPending, k \in FrameDts(dts) :
          IF SpawnDue(k)
          THEN \E rw \in RandWidth, rx \in Rand, rs \in Rand : Animate(id, k, rw, rx, rs)
          ELSE Animate(id, k, 0, 0, 0)

Frame == FrameWith(DtSet, MaxFrames)

(* handleMove without its phase test *)
HandleMove_AnyPhase(dir) ==
    /\ nMoves < MaxMoves
    /\ nMoves' = nMoves + 1
    /\ calls' = <<[op |-> "handleMove", arg |-> IF dir = "left" THEN -1 ELSE 1]>>
    /\ playerRef' = [playerRef EXCEPT !.targetX = MoveTarget(playerRef, canvasW, dir)]
    /\ UNCHANGED <<canvasW, canvasH, obstaclesRef, particlesRef, scoreRef, spawnTimerRef,
                   currentDifficultyRef, currentFallSpeedRef, loopVars, appVars, pend,
                   storage, nFrames, runVars>>

(* handleMove(dir), from the keyboard or an on-screen control *)
HandleMove(dir) ==
    /\ nMoves < MaxMoves
    /\ nMoves' = nMoves + 1
    /\ calls' = <<[op |-> "handleMove", arg |-> IF dir = "left" THEN -1 ELSE 1]>>
    /\ playerRef' = IF gameState # "PLAYING" THEN playerRef
                    ELSE [playerRef EXCEPT !.targetX = MoveTarget(playerRef, canvasW, dir)]
    /\ UNCHANGED <<canvasW, canvasH, obstaclesRef, particlesRef, scoreRef, spawnTimerRef,
                   currentDifficultyRef, currentFallSpeedRef, loopVars, appVars, pend,
                   storage, nFrames, runVars>>

Move == \E dir \in {"left", "right"} : HandleMove(dir)

(* window resize: resize() sets the canvas size and calls initGame *)
Resize(w, h) ==
    /\ canvasW' = w
    /\ canvasH' = h
    /\ playerRef' = InitPlayer(w, h)
    /\ obstaclesRef' = <<>>
    /\ particlesRef' = <<>>
    /\ scoreRef' = 0
    /\ spawnTimerRef' = 0
    /\ currentDifficultyRef' = 1000000
    /\ currentFallSpeedRef' = INITIAL_FALL_SPEED * 1000000
    /\ pend' = [pend EXCEPT !.score = 0]
    /\ calls' = <<[op |-> "resize", arg |-> w], [op |-> "onScoreUpdate", arg |-> 0]>>
    /\ sinceSpawn' = -1
    /\ runN' = 0
    /\ runT' = 0
    /\ runClean' = TRUE
    /\ UNCHANGED <<loopVars, appVars, storage, nFrames, nMoves>>

WindowResize == \E w \in Widths, h \in Heights : Resize(w, h)

(* startGame without the test of the wallet *)
StartGame_NoWalletTest ==
    /\ gameState # "PLAYING"
    /\ calls' = <<[op |-> "startGame", arg |-> 0]>>
    /\ Render([pend EXCEPT !.score = 0, !.state = "PLAYING"], isConnected)
    /\ runN' = 0
    /\ runT' = 0
    /\ runClean' = TRUE
    /\ UNCHANGED sinceSpawn
    /\ UNCHANGED <<canvasW, canvasH, simVars, storage, nFrames, nMoves>>

(* startGame, the button of the start and game-over screens *)
StartGame ==
    /\ gameState # "PLAYING"
    /\ IF ~isConnected
       THEN /\ calls' = <<[op |-> "open", arg |-> 0]>>
            /\ UNCHANGED <<appVars, pend, loopVars, runVars>>
       ELSE /\ calls' = <<[op |-> "startGame", arg |-> 0]>>
            /\ Render([pend EXCEPT !.score = 0, !.state = "PLAYING"], isConnected)
            /\ runN' = 0
            /\ runT' = 0
            /\ runClean' = TRUE
            /\ UNCHANGED sinceSpawn
    /\ UNCHANGED <<canvasW, canvasH, simVars, storage, nFrames, nMoves>>

(* React renders the updates issued from a frame callback or a resize *)
Rerender ==
    /\ pend # NoUpdate
    /\ Render(pend, isConnected)
    /\ calls' = <<>>
    /\ UNCHANGED <<canvasW, canvasH, simVars, storage, nFrames, nMoves, runVars>>

(* the wallet connects or disconnects: useAppKitAccount re-renders App *)
WalletChange ==
    /\ Render(pend, ~isConnected)
    /\ calls' = <<>>
    /\ UNCHANGED <<canvasW, canvasH, simVars, storage, nFrames, nMoves, runVars>>

Next ==
    \/ Frame
    \/ Move
    \/ WindowResize
    \/ StartGame
    \/ Rerender
    \/ WalletChange

Spec == Init /\ [][Next]_vars

(* The same program on a stalled page: every frame arrives after 1016 ms, *)
(* nobody steers.                                                         *)
StallFrame == FrameWith(StallDts, MaxStallFrames)

NextStall ==
    \/ StallFrame
    \/ WindowResize
    \/ StartGame
    \/ Rerender
    \/ WalletChange

SpecStall == Init /\ [][NextStall]_vars

(* The program while frames with dt > 0 keep arriving and React renders    *)
(* the updates it holds.  FramesArrive is weak fairness of the frames     *)
(* with dt > 0, written with the state predicate that tells when such a   *)
(* frame can run and the steps that are such a frame.                     *)
PositiveFrameReady ==
    /\ nFrames < MaxFrames
    /\ rafPending # {}
    /\ FrameDts(DtSet) \ {0} # {}

PositiveFrameStep ==
    /\ nFrames' = nFrames + 1
    /\ calls'[1].arg > 0

FramesArrive == []<>(~PositiveFrameReady) \/ []<><<PositiveFrameStep>>_vars

SpecLive == Init /\ [][Next]_vars /\ WF_vars(Rerender) /\ FramesArrive

----------------------------------------------------------------------------
(* What the claims speak of *)

IsFrameStep == nFrames' = nFrames + 1
IsMoveStep == nMoves' = nMoves + 1
FrameDt == calls[1].arg
HasCall(cs, name) == \E i \in 1..Len(cs) : cs[i].op = name
ArgsOf(cs, name) == SelectSeq(cs, LAMBDA c : c.op = name)

(* the high score once the issued updates are rendered *)
EffHighScore == IF pend.high # -1 THEN pend.high ELSE highScore

InPlayRange(x) == 10000 <= x /\ x <= 1000 * canvasW - playerRef.width - 10000

----------------------------------------------------------------------------
(* C1: whenever the phase changes to playing, the simulator's score is 0  *)
(* and no obstacle of the previous run is left.                           *)
C1_ResetOnStart ==
    [][(gameState # "PLAYING" /\ gameState' = "PLAYING")
          => (scoreRef' = 0 /\ obstaclesRef' = <<>>)]_vars

(* C2: a frame in which the player overlaps an obstacle adds exactly 25   *)
(* particles and calls onGameOver exactly once, with the floor of the     *)
(* score as it was before the frame's pass.                               *)
C2_OneGameOverPerFrame ==
    [][(IsFrameStep /\ HasCall(calls', "onGameOver"))
          => /\ CountOp(calls', "onGameOver") = 1
             /\ ArgsOf(calls', "onGameOver")[1].arg = Floor(scoreRef)
             /\ Len(particlesRef')
                  = Cardinality({i \in 1..Len(particlesRef) :
                                    particlesRef[i].life - calls'[1].arg > 0}) + 25]_vars

(* C3 as stated: for every canvas width, x and targetX lie in             *)
(* [10, canvasWidth - playerWidth - 10].                                  *)
C3_InRangeAnyWidth == InPlayRange(playerRef.x) /\ InPlayRange(playerRef.targetX)

(* C3 amended: the same for every canvas width of at least 68.            *)
C3_InRange == canvasW >= 68 => C3_InRangeAnyWidth

C3_Witness ==
    /\ canvasW = 68
    /\ calls # <<>> /\ calls[1].op = "handleMove"
    /\ gameState = "PLAYING"
    /\ nFrames > 0

(* C4: every value assigned to the spawn timer on a spawn is at least     *)
(* 350 ms, and a spawn that is not the first since init comes after at    *)
(* least 350 ms of dt simulated since the spawn before it.                *)
C4_SpawnInterval ==
    [][(IsFrameStep /\ HasCall(calls', "spawn"))
          => /\ ArgsOf(calls', "spawn")[1].arg >= 35000
             /\ spawnTimerRef' = ArgsOf(calls', "spawn")[1].arg
             /\ sinceSpawn # -1 => sinceSpawn + 1666 * calls'[1].arg >= 35000]_vars

C4_Witness ==
    /\ HasCall(calls, "spawn")
    /\ spawnTimerRef = 35000
    /\ currentDifficultyRef > 2857142

(* the particles of particlesRef' that were in particlesRef, and how many *)
(* particles the filter dropped                                           *)
KeptCount == Len(particlesRef') - ExplosionCount * CountOp(calls', "createExplosion")
DroppedCount == Len(particlesRef) - KeptCount

(* C5 as stated: every update leaves every particle with strictly less    *)
(* life, and keeps it exactly when the new life is > 0.                   *)
C5_LifeStrictlyLess ==
    [][IsFrameStep
          => /\ DroppedCount >= 0
             /\ \A i \in 1..KeptCount :
                   particlesRef'[i].life < particlesRef[i + DroppedCount].life]_vars

(* C5 amended: an update with dt lowers every particle's life by          *)
(* 0.02 * dt / 16.66, strictly when dt > 0 and not at all when dt = 0;    *)
(* the filter drops exactly the particles whose new life is <= 0, so no   *)
(* particle with life <= 0 is present after an update.                    *)
C5_ParticleDecay ==
    [][IsFrameStep
          => /\ DroppedCount >= 0
             /\ KeptCount >= 0
             /\ \A i \in 1..KeptCount :
                   /\ particlesRef'[i].life = particlesRef[i + DroppedCount].life - calls'[1].arg
                   /\ calls'[1].arg > 0
                        => particlesRef'[i].life < particlesRef[i + DroppedCount].life
             /\ \A i \in 1..DroppedCount : particlesRef[i].life - calls'[1].arg <= 0
             /\ \A i \in 1..Len(particlesRef') : particlesRef'[i].life > 0]_vars

C5_Witness ==
    /\ calls # <<>> /\ calls[1].op = "animate" /\ calls[1].arg = 25
    /\ particlesRef # <<>>
    /\ particlesRef[1].life = 25

(* C6: in the playing phase of a run without collision, after N dodged    *)
(* obstacles and T of simulated dt the score is at least                  *)
(* 10 * N + 0.015 * T, and no frame lowers the score.  A run begins at    *)
(* startGame or at initGame.                                              *)
C6_ScoreBound ==
    /\ []((gameState = "PLAYING" /\ runClean) => scoreRef >= 100000 * runN + 2499 * runT)
    /\ [][IsFrameStep => scoreRef' >= scoreRef]_vars

C6_Witness ==
    /\ gameState = "PLAYING"
    /\ runClean
    /\ runN >= 1
    /\ runT > 0
    /\ scoreRef = 100000 * runN + 2499 * runT

(* C7: in a frame of the playing phase every obstacle is removed either   *)
(* by a collision or by passing the bottom; each obstacle that passed     *)
(* adds 10 once and makes one onScoreUpdate call with the floor of the    *)
(* score it produced; no obstacle below the canvas height is left; every  *)
(* obstacle that stays has moved down by speed * dt / 16.66, at least     *)
(* 4 * dt / 16.66.  Under frames with dt > 0 that keep arriving every     *)
(* obstacle is eventually gone, unless the phase leaves playing or the    *)
(* frames of the model end.                                               *)
ScoreCalls == ArgsOf(calls', "onScoreUpdate")

C7_Safety ==
    [][(IsFrameStep /\ gameState = "PLAYING")
          => /\ Len(obstaclesRef) + CountOp(calls', "spawn")
                  = Len(obstaclesRef') + Len(ScoreCalls) + CountOp(calls', "onGameOver")
             /\ scoreRef' = scoreRef + 100000 * Len(ScoreCalls) + 2499 * calls'[1].arg
             /\ \A i \in 1..Len(ScoreCalls) :
                   ScoreCalls[i].arg = Floor(scoreRef + 100000 * i)
             /\ \A i \in 1..Len(obstaclesRef') :
                   /\ obstaclesRef'[i].y <= 1000 * canvasH
                   /\ obstaclesRef'[i].speed >= 1000 * INITIAL_FALL_SPEED
                   /\ obstaclesRef'[i].y >= -100000 + 4000 * calls'[1].arg
             /\ \A i \in 1..Len(obstaclesRef) :
                   \/ \E j \in 1..Len(obstaclesRef') :
                         /\ obstaclesRef'[j].born = obstaclesRef[i].born
                         /\ obstaclesRef'[j].y
                              = obstaclesRef[i].y + obstaclesRef[i].speed * calls'[1].arg
                   \/ /\ \A j \in 1..Len(obstaclesRef') :
                            obstaclesRef'[j].born # obstaclesRef[i].born
                      /\ \/ obstaclesRef[i].y + obstaclesRef[i].speed * calls'[1].arg
                               > 1000 * canvasH
                         \/ HasCall(calls', "onGameOver")]_vars

Present(b) == \E i \in 1..Len(obstaclesRef) : obstaclesRef[i].born = b

C7_Liveness ==
    \A b \in 1..MaxFrames :
        Present(b) ~> (~Present(b) \/ gameState # "PLAYING" \/ nFrames >= MaxFrames)

C8_HighScoreMonotone == [][EffHighScore' >= EffHighScore]_vars

(* C9: init sets x = targetX = canvasWidth / 2 - 24 (376 for width 800);  *)
(* left sets targetX to max(10, targetX - canvasWidth / 4), right to      *)
(* min(canvasWidth - playerWidth - 10, targetX + canvasWidth / 4); on     *)
(* width 800 one left from 376 gives 176.                                 *)
C9_Steering ==
    /\ []((nFrames = 0 /\ nMoves = 0)
             => /\ playerRef.x = 500 * canvasW - 24000
                /\ playerRef.targetX = playerRef.x
                /\ canvasW = 800 => playerRef.x = 376000)
    /\ [][(IsMoveStep /\ gameState = "PLAYING")
             => /\ calls'[1].arg = -1
                   => playerRef'.targetX = Max(10000, playerRef.targetX - 250 * canvasW)
                /\ calls'[1].arg = 1
                   => playerRef'.targetX
                        = Min(1000 * canvasW - 48000 - 10000, playerRef.targetX + 250 * canvasW)
                /\ (canvasW = 800 /\ playerRef.targetX = 376000 /\ calls'[1].arg = -1)
                   => playerRef'.targetX = 176000]_vars

C9_Witness ==
    /\ canvasW = 800
    /\ calls # <<>> /\ calls[1].op = "handleMove" /\ calls[1].arg = -1
    /\ playerRef.targetX = 176000

(* C10: at every moment exactly one frame callback is pending, the one    *)
(* requestRef names.                                                      *)
C10_OneLoop == rafPending = {requestRef}

C10_Witness ==
    /\ gameState = "GAMEOVER"
    /\ nFrames >= 2
    /\ calls = <<>>
    /\ pend = NoUpdate

(* C11: a frame whose update sees the phase start or game-over lowers the *)
(* life of every particle by 0.02 * dt / 16.66 and drops those that reach *)
(* 0 or less; it leaves the player, the obstacles, the score, the spawn   *)
(* timer, the difficulty and the fall speed as they were and calls        *)
(* neither onScoreUpdate nor onGameOver, so no state update is issued and *)
(* nothing is stored.                                                     *)
C11_IdleFrame ==
    [][(IsFrameStep /\ gameState # "PLAYING")
          => /\ playerRef' = playerRef
             /\ obstaclesRef' = obstaclesRef
             /\ scoreRef' = scoreRef
             /\ spawnTimerRef' = spawnTimerRef
             /\ currentDifficultyRef' = currentDifficultyRef
             /\ currentFallSpeedRef' = currentFallSpeedRef
             /\ Len(calls') = 1
             /\ pend' = pend /\ storage' = storage
             /\ Len(particlesRef') <= Len(particlesRef)
             /\ \A i \in 1..Len(particlesRef') :
                   /\ particlesRef'[i].life > 0
                   /\ particlesRef'[i].life
                        = particlesRef[i + Len(particlesRef) - Len(particlesRef')].life
                            - calls'[1].arg
             /\ \A i \in 1..(Len(particlesRef) - Len(particlesRef')) :
                   particlesRef[i].life - calls'[1].arg <= 0]_vars

C11_Witness ==
    /\ gameState = "GAMEOVER"
    /\ calls # <<>> /\ calls[1].op = "animate" /\ calls[1].arg = 25
    /\ obstaclesRef # <<>>
    /\ particlesRef # <<>>
    /\ scoreRef > 0

(* C12: a steering intent changes nothing but the player's targetX: x,    *)
(* y, size, the obstacles, the particles, the score, the spawn timer, the *)
(* difficulty, the fall speed, the phase, the frame loop and the updates  *)
(* held by React stay as they were; when the phase is not playing the     *)
(* player, targetX included, stays as it was.                             *)
C12_SteeringFrame ==
    [][IsMoveStep
          => /\ playerRef' = [playerRef EXCEPT !.targetX = playerRef'.targetX]
             /\ obstaclesRef' = obstaclesRef
             /\ particlesRef' = particlesRef
             /\ scoreRef' = scoreRef
             /\ spawnTimerRef' = spawnTimerRef
             /\ currentDifficultyRef' = currentDifficultyRef
             /\ currentFallSpeedRef' = currentFallSpeedRef
             /\ gameState' = gameState /\ score' = score /\ highScore' = highScore
             /\ pend' = pend /\ storage' = storage
             /\ canvasW' = canvasW /\ canvasH' = canvasH
             /\ lastTimeRef' = lastTimeRef /\ requestRef' = requestRef
             /\ rafPending' = rafPending
             /\ Len(calls') = 1
             /\ gameState # "PLAYING" => playerRef' = playerRef]_vars

C12_Witness ==
    /\ gameState = "PLAYING"
    /\ calls # <<>> /\ calls[1].op = "handleMove" /\ calls[1].arg = 1
    /\ playerRef.targetX > playerRef.x
    /\ obstaclesRef # <<>>
    /\ scoreRef > 0

C12_IdleWitness ==
    /\ gameState = "GAMEOVER"
    /\ calls # <<>> /\ calls[1].op = "handleMove"
    /\ particlesRef # <<>>

(* C13: in a frame of the playing phase an obstacle that overlaps the     *)
(* player after its move is removed with one createExplosion and one      *)
(* onGameOver and no onScoreUpdate; one that does not overlap and is      *)
(* below the canvas height is removed with one onScoreUpdate and no       *)
(* onGameOver; any other stays.  No obstacle has both an onGameOver and   *)
(* an onScoreUpdate call, and the score grows by 10 for every             *)
(* onScoreUpdate and by nothing for an onGameOver.                        *)
CallsFor(cs, name, b) ==
    Cardinality({i \in 1..Len(cs) : cs[i].op = name /\ cs[i].born = b})

MovedBy(o, k) == [o EXCEPT !.y = o.y + o.speed * k]

OverlapsPlayer(o) ==
    /\ playerRef'.x < o.x + o.width
    /\ playerRef'.x + playerRef'.width > o.x
    /\ playerRef'.y < o.y + o.height
    /\ playerRef'.y + playerRef'.height > o.y

StaysAs(o) == \E j \in 1..Len(obstaclesRef') : obstaclesRef'[j] = o

FilterCalls == SelectSeq(calls', LAMBDA c : c.op \in {"createExplosion", "onGameOver",
                                                      "onScoreUpdate"})

C13_FirstMatchWins ==
    [][(IsFrameStep /\ gameState = "PLAYING")
          => /\ \A i \in 1..Len(FilterCalls) :
                   ~(/\ CallsFor(FilterCalls, "onGameOver", FilterCalls[i].born) > 0
                     /\ CallsFor(FilterCalls, "onScoreUpdate", FilterCalls[i].born) > 0)
             /\ \A i \in 1..Len(obstaclesRef) :
                   LET o == MovedBy(obstaclesRef[i], calls'[1].arg)
                       b == o.born
                   IN  IF OverlapsPlayer(o)
                       THEN /\ ~StaysAs(o)
                            /\ CallsFor(FilterCalls, "createExplosion", b) = 1
                            /\ CallsFor(FilterCalls, "onGameOver", b) = 1
                            /\ CallsFor(FilterCalls, "onScoreUpdate", b) = 0
                       ELSE IF o.y > 1000 * canvasH
                       THEN /\ ~StaysAs(o)
                            /\ CallsFor(FilterCalls, "onScoreUpdate", b) = 1
                            /\ CallsFor(FilterCalls, "onGameOver", b) = 0
                            /\ CallsFor(FilterCalls, "createExplosion", b) = 0
                       ELSE /\ StaysAs(o)
                            /\ CallsFor(FilterCalls, "onScoreUpdate", b) = 0
                            /\ CallsFor(FilterCalls, "onGameOver", b) = 0
             /\ scoreRef' = scoreRef + 2499 * calls'[1].arg
                               + 100000 * CountOp(calls', "onScoreUpdate")]_vars

C13_Witness ==
    /\ calls # <<>> /\ calls[1].op = "animate"
    /\ nFrames >= 2
    /\ \E i, j \in 1..Len(calls) :
          /\ calls[i].op = "onScoreUpdate"
          /\ calls[j].op = "onGameOver"
          /\ calls[i].born < calls[j].born
          /\ calls[i].born < nFrames

(* C14: the phase changes only from start to playing, from playing to     *)
(* game-over and from game-over to playing, and never to start.  It       *)
(* enters playing only in a startGame with the wallet connected; it       *)
(* leaves playing only by rendering the game-over an onGameOver call      *)
(* issued, and such an update is issued only by a frame with a collision. *)
(* A startGame with no wallet connected opens the connect view and        *)
(* changes nothing else.                                                  *)
C14_PhaseChanges ==
    [][/\ gameState' # gameState
            => \/ gameState = "START" /\ gameState' = "PLAYING"
               \/ gameState = "PLAYING" /\ gameState' = "GAMEOVER"
               \/ gameState = "GAMEOVER" /\ gameState' = "PLAYING"
       /\ gameState' = "START" => gameState = "START"
       /\ (gameState # "PLAYING" /\ gameState' = "PLAYING")
            => /\ isConnected
               /\ calls' = <<[op |-> "startGame", arg |-> 0]>>
               /\ score' = 0
       /\ (gameState = "PLAYING" /\ gameState' = "GAMEOVER") => pend.state = "GAMEOVER"
       /\ (pend'.state = "GAMEOVER" /\ pend.state # "GAMEOVER")
            => /\ IsFrameStep
               /\ gameState = "PLAYING"
               /\ HasCall(calls', "createExplosion")
               /\ HasCall(calls', "onGameOver")
       /\ pend'.state \in {"NONE", "GAMEOVER"}
       /\ (calls' # <<>> /\ calls'[1].op = "startGame") => (isConnected /\ gameState' = "PLAYING")
       /\ (calls' # <<>> /\ calls'[1].op = "open")
            => /\ ~isConnected
               /\ Len(calls') = 1
               /\ UNCHANGED <<canvasW, canvasH, simVars, loopVars, appVars, pend, storage>>]_vars

C14_Witness ==
    /\ gameState = "PLAYING"
    /\ calls = <<[op |-> "startGame", arg |-> 0]>>
    /\ particlesRef # <<>>
    /\ nFrames >= 2

C14_OpenWitness ==
    /\ gameState = "GAMEOVER"
    /\ calls = <<[op |-> "open", arg |-> 0]>>
    /\ ~isConnected

====
